---- MODULE Spec2Model ----
(***************************************************************************)
(* Dungeon Battle Simulator (src/dungeon_sim.py).                          *)
(*                                                                         *)
(* The module models the combatant stat derivation (Hero, Enemy), the      *)
(* attack resolver (attack_enemy, attack_hero, take_damage), the battle    *)
(* loop (BattleSimulator.simulate_battle) and the command line driver      *)
(* (validate_arguments, main) with its exit codes.                         *)
(*                                                                         *)
(* Probabilities are kept in integer thousandths: random.random() is a     *)
(* draw from 0..999 and critical_chance is 1000 times the Python float.    *)
(* The enemy's display name is cosmetic and is not part of the state.      *)
(*                                                                         *)
(* battle_log is append-only and every entry carries the value turn_count  *)
(* had when it was appended ("Turn N: ...").  turnLog is the part of the   *)
(* log tagged with the current turn_count, in order: it starts empty again *)
(* when turn_count is incremented.  An entry is its kind and, for the      *)
(* entries that narrate a health value ("Enemy HP: x/max", "Hero HP:       *)
(* x/max"), the x.                                                         *)
(***************************************************************************)
EXTENDS Integers, Sequences, FiniteSets, TLC

VARIABLES
    pc,            \* position of the run
    args,          \* parsed command line (argparse namespace)
    env,           \* the process environment: stdout codec, file system
    hero,          \* Hero object, or NoObject before construction
    enemy,         \* Enemy object, or NoObject before construction
    turn_count,    \* BattleSimulator.turn_count
    turnLog,       \* entries of battle_log tagged with the current turn_count
    victory,       \* value returned by simulate_battle (set when pc = "returned")
    exc,           \* exception in flight ("none" if there is none)
    exit_code,     \* process exit code (-1 while running)
    files,         \* files created by the run
    heroAttacks,   \* number of calls of Hero.attack_enemy
    enemyAttacks,  \* number of calls of Enemy.attack_hero
    call,          \* the last direct call of take_damage: argument and result
    draw           \* random outcomes of the step just taken (NoDraw if it drew none)

vars == << pc, args, env, hero, enemy, turn_count, turnLog,
           victory, exc, exit_code, files, heroAttacks, enemyAttacks, call,
           draw >>

----------------------------------------------------------------------------
(* Program constants *)

VALID_CLASSES == {"Warrior", "Mage", "Rogue"}

MaxTurns == 50
MinLevel == 1
MaxLevel == 100
CritCapMilli == 750
MissChanceMilli == 150
HeroRollLo == -5
HeroRollHi == 10
EnemyRollLo == -3
EnemyRollHi == 8
OffsetLo == -2
OffsetHi == 3

NoObject == [none |-> TRUE]
NoCall == [n |-> 0, target |-> "none", damage |-> 0, returned |-> 0]

\* draw.crit: the test of line 70 succeeded in the attack_enemy call just made
\* draw.miss: the test of line 112 succeeded in the attack_hero call just made
NoDraw == [crit |-> FALSE, miss |-> FALSE]

Max(a, b) == IF a >= b THEN a ELSE b
Min(a, b) == IF a <= b THEN a ELSE b

\* Python int(): truncation toward zero of num/den, den > 0
IntTrunc(num, den) == IF num >= 0 THEN num \div den ELSE -((-num) \div den)

\* division that rounds toward zero instead of down
FloorDiv_trunc(a, b) == IntTrunc(a, b)

\* Python //: floor division by a positive divisor
FloorDiv(a, b) == a \div b

----------------------------------------------------------------------------
(* Combatant Stat Model: Hero *)

base_hp == [Warrior |-> 150, Mage |-> 100, Rogue |-> 120]
base_attack == [Warrior |-> 25, Mage |-> 35, Rogue |-> 30]
base_defense == [Warrior |-> 20, Mage |-> 10, Rogue |-> 15]
base_crit == [Warrior |-> 150, Mage |-> 250, Rogue |-> 350]

\* the level added without its factor 10
calculate_max_hp_flat(hero_class, level) == base_hp[hero_class] + level

calculate_max_hp(hero_class, level) == base_hp[hero_class] + (level * 10)

\* attack that does not grow with the level
calculate_attack_flat(hero_class, level) == base_attack[hero_class]

calculate_attack(hero_class, level) == base_attack[hero_class] + (level * 2)

\* the level halved with integer division
calculate_defense_halved(hero_class, level) ==
    base_defense[hero_class] + (level \div 2)

calculate_defense(hero_class, level) == base_defense[hero_class] + (level * 1)

calculate_critical_chance(hero_class, level) ==
    Min(base_crit[hero_class] + (level * 2), CritCapMilli)

\* Hero.__init__ for a class that is a key of the tables
HeroInit(name, hero_class, level, hardcore_mode) ==
    [ name |-> name,
      hero_class |-> hero_class,
      level |-> level,
      hardcore_mode |-> hardcore_mode,
      max_hp |-> calculate_max_hp(hero_class, level),
      current_hp |-> calculate_max_hp(hero_class, level),
      attack |-> calculate_attack(hero_class, level),
      defense |-> calculate_defense(hero_class, level),
      critical_chance |-> calculate_critical_chance(hero_class, level) ]

(* Combatant Stat Model: Enemy *)

\* difficulty_multiplier in tenths: 1.5 or 1.0
difficulty_multiplier(hardcore_mode) == IF hardcore_mode THEN 15 ELSE 10

\* the difficulty multiplier applied to the defense as well
EnemyInit_defense_scaled(hero_level, hardcore_mode, offset) ==
    LET level == hero_level + offset
        mult == difficulty_multiplier(hardcore_mode)
    IN  [ level |-> level,
          hardcore_mode |-> hardcore_mode,
          max_hp |-> IntTrunc((100 + level * 12) * mult, 10),
          current_hp |-> IntTrunc((100 + level * 12) * mult, 10),
          attack |-> IntTrunc((20 + level * 2) * mult, 10),
          defense |-> IntTrunc((10 + level) * mult, 10) ]

\* Enemy.__init__ with the drawn level offset random.randint(-2, 3)
\* defense without its base of 10
EnemyInit_bare_defense(hero_level, hardcore_mode, offset) ==
    LET level == hero_level + offset
        mult == difficulty_multiplier(hardcore_mode)
    IN  [ level |-> level,
          hardcore_mode |-> hardcore_mode,
          max_hp |-> IntTrunc((100 + level * 12) * mult, 10),
          current_hp |-> IntTrunc((100 + level * 12) * mult, 10),
          attack |-> IntTrunc((20 + level * 2) * mult, 10),
          defense |-> level ]

EnemyInit(hero_level, hardcore_mode, offset) ==
    LET level == hero_level + offset
        mult == difficulty_multiplier(hardcore_mode)
    IN  [ level |-> level,
          hardcore_mode |-> hardcore_mode,
          max_hp |-> IntTrunc((100 + level * 12) * mult, 10),
          current_hp |-> IntTrunc((100 + level * 12) * mult, 10),
          attack |-> IntTrunc((20 + level * 2) * mult, 10),
          defense |-> 10 + level ]

----------------------------------------------------------------------------
(* Attack Resolver *)

\* Hero.attack_enemy: u is the random.random() draw, roll the randint draw
is_critical(h, u) == u < h.critical_chance

\* a critical hit that doubles the attack attribute but not the roll
attack_enemy_roll_undoubled(h, u, roll) ==
    IF is_critical(h, u) THEN 2 * h.attack + roll ELSE h.attack + roll

attack_enemy(h, u, roll) ==
    LET damage == h.attack + roll
    IN  IF is_critical(h, u) THEN 2 * damage ELSE damage

\* a miss that still carries one point of raw damage
attack_hero_miss_grazes(e, u, roll) ==
    IF u < MissChanceMilli THEN 1 ELSE e.attack + roll

\* Enemy.attack_hero
attack_hero(e, u, roll) ==
    IF u < MissChanceMilli THEN 0 ELSE e.attack + roll

\* Hero.take_damage / Enemy.take_damage: the damage actually applied
hero_actual_damage(h, damage) == Max(damage - FloorDiv(h.defense, 2), 1)

\* mitigation without the floor of 1
enemy_actual_damage_unfloored(e, damage) == damage - FloorDiv(e.defense, 2)

enemy_actual_damage(e, damage) == Max(damage - FloorDiv(e.defense, 2), 1)

\* a hit that also wears the defender's armour down
hero_take_damage_wears_armour(h, damage) ==
    [h EXCEPT !.current_hp = h.current_hp - hero_actual_damage(h, damage),
              !.defense = h.defense - 1]

hero_take_damage(h, damage) ==
    [h EXCEPT !.current_hp = h.current_hp - hero_actual_damage(h, damage)]

enemy_take_damage(e, damage) ==
    [e EXCEPT !.current_hp = e.current_hp - enemy_actual_damage(e, damage)]

is_alive(c) == c.current_hp > 0

\* the health value narrated by lines 167 and 180
shown_hp(c) == Max(0, c.current_hp)

----------------------------------------------------------------------------
(* Battle log *)

Entry(kind, val) == [kind |-> kind, val |-> val]

\* log_event: append an entry tagged with the current turn_count
log_event(log, kind, val) == Append(log, Entry(kind, val))

HasKind(log, kind) == \E i \in 1..Len(log) : log[i].kind = kind

----------------------------------------------------------------------------
(* Battle Loop: BattleSimulator.simulate_battle, one action per step *)

UnitDraws == {0, 500, 999}           \* representative random.random() draws
HeroRolls == HeroRollLo..HeroRollHi  \* random.randint(-5, 10)
\* a swing wide enough to cancel a weak enemy's attack: randint(-24, 8)
EnemyRolls_wide == (-24)..EnemyRollHi

EnemyRolls == EnemyRollLo..EnemyRollHi  \* random.randint(-3, 8)

mainVars == << args, env, exc, exit_code, files, call >>

\* lines 149-157: the header entries, all tagged "Turn 0"
BattleStart ==
    /\ pc = "battle_start"
    /\ LET l1 == log_event(turnLog, "battle_start", 0)
           l2 == log_event(l1, "versus", 0)
           l3 == log_event(l2, "hero_stats", hero.max_hp)
           l4 == log_event(l3, "enemy_stats", enemy.max_hp)
           l5 == IF hero.hardcore_mode THEN log_event(l4, "hardcore", 0) ELSE l4
           l6 == log_event(l5, "blank", 0)
       IN  turnLog' = l6
    /\ pc' = "loop"
    /\ UNCHANGED << hero, enemy, turn_count, victory, heroAttacks, enemyAttacks >>
    /\ UNCHANGED mainVars
    /\ draw' = NoDraw

\* the loop without its turn ceiling
LoopCondition_no_ceiling ==
    is_alive(hero) /\ is_alive(enemy)

\* line 159-160: the loop condition, and the increment when it holds
LoopCondition ==
    is_alive(hero) /\ is_alive(enemy) /\ turn_count < MaxTurns

LoopTest ==
    /\ pc = "loop"
    /\ IF LoopCondition
       THEN /\ turn_count' = turn_count + 1
            /\ turnLog' = << >>
            /\ pc' = "hero_turn"
       ELSE /\ pc' = "after_loop"
            /\ UNCHANGED << turn_count, turnLog >>
    /\ UNCHANGED << hero, enemy, victory, heroAttacks, enemyAttacks >>
    /\ UNCHANGED mainVars
    /\ draw' = NoDraw

\* lines 162-167: the hero attacks, the enemy takes the damage, two entries
HeroTurn ==
    /\ pc = "hero_turn"
    /\ \E u \in UnitDraws, roll \in HeroRolls :
         LET hero_damage == attack_enemy(hero, u, roll)
             e2 == enemy_take_damage(enemy, hero_damage)
             l1 == log_event(turnLog, "hero_attack", 0)
             l2 == log_event(l1, "enemy_hp", shown_hp(e2))
         IN  /\ enemy' = e2
             /\ turnLog' = l2
             /\ draw' = [crit |-> is_critical(hero, u), miss |-> FALSE]
    /\ heroAttacks' = heroAttacks + 1
    /\ pc' = "check_enemy"
    /\ UNCHANGED << hero, turn_count, victory, enemyAttacks >>
    /\ UNCHANGED mainVars

\* the test of line 169 left out: the enemy always retaliates
EnemyDown_never == FALSE

\* the test of line 169 with < 0: an enemy left at exactly 0 retaliates
EnemyDown_below_zero == enemy.current_hp < 0

\* line 169: the hero's hit killed the enemy
EnemyDown == ~is_alive(enemy)

\* lines 169-171: a dead enemy ends the loop before it can retaliate
CheckEnemy ==
    /\ pc = "check_enemy"
    /\ IF EnemyDown
       THEN /\ turnLog' = log_event(turnLog, "enemy_defeated", 0)
            /\ pc' = "after_loop"
       ELSE /\ pc' = "enemy_turn"
            /\ UNCHANGED turnLog
    /\ UNCHANGED << hero, enemy, turn_count, victory, heroAttacks, enemyAttacks >>
    /\ UNCHANGED mainVars
    /\ draw' = NoDraw

\* lines 173-181: the enemy attacks; a returned 0 is narrated as a miss
EnemyTurn ==
    /\ pc = "enemy_turn"
    /\ \E u \in UnitDraws, roll \in EnemyRolls :
         LET enemy_damage == attack_hero(enemy, u, roll)
             h2 == IF enemy_damage = 0 THEN hero
                   ELSE hero_take_damage(hero, enemy_damage)
             l1 == IF enemy_damage = 0
                   THEN log_event(turnLog, "enemy_miss", 0)
                   ELSE log_event(turnLog, "enemy_attack", 0)
             l2 == log_event(l1, "hero_hp", shown_hp(h2))
             l3 == log_event(l2, "blank", 0)
         IN  /\ hero' = h2
             /\ turnLog' = l3
             /\ draw' = [crit |-> FALSE, miss |-> u < MissChanceMilli]
    /\ enemyAttacks' = enemyAttacks + 1
    /\ pc' = "check_hero"
    /\ UNCHANGED << enemy, turn_count, victory, heroAttacks >>
    /\ UNCHANGED mainVars

\* lines 183-185
CheckHero ==
    /\ pc = "check_hero"
    /\ IF ~is_alive(hero)
       THEN /\ turnLog' = log_event(turnLog, "hero_defeated", 0)
            /\ pc' = "after_loop"
       ELSE /\ pc' = "loop"
            /\ UNCHANGED turnLog
    /\ UNCHANGED << hero, enemy, turn_count, victory, heroAttacks, enemyAttacks >>
    /\ UNCHANGED mainVars
    /\ draw' = NoDraw

\* line 187: the test that selects the timeout return
TimedOut == turn_count >= MaxTurns

\* lines 187-194: the timeout return, or the victory flag
AfterLoop ==
    /\ pc = "after_loop"
    /\ IF TimedOut
       THEN /\ turnLog' = log_event(turnLog, "timeout", 0)
            /\ victory' = FALSE
       ELSE /\ victory' = is_alive(hero)
            /\ turnLog' = log_event(turnLog,
                              IF is_alive(hero) THEN "end_victory" ELSE "end_defeat", 0)
    /\ pc' = "returned"
    /\ UNCHANGED << hero, enemy, turn_count, heroAttacks, enemyAttacks >>
    /\ UNCHANGED mainVars
    /\ draw' = NoDraw

----------------------------------------------------------------------------
(* A battle session on combatants whose attributes were set by the caller  *)
(* (BattleSimulator takes any Hero and Enemy; their attributes are plain   *)
(* mutable fields).                                                        *)

ForcedAttack == 6
ForcedDefense == 100
ForcedSmallHp == 7

ForcedHeroAttacks == {0, ForcedAttack}
ForcedEnemyAttacks == {0, 3}
ForcedDefenses == {-3, ForcedDefense}
ForcedEnemyHps == {1, ForcedSmallHp, MaxTurns, MaxTurns + 1}
ForcedHeroHps == {1, ForcedSmallHp, MaxTurns}
ForcedCrit == 500

\* a combatant that mitigates nothing is given few health points
ForcedPair(hp, def) == def >= ForcedDefense \/ hp <= ForcedSmallHp

NoArgs == [none |-> TRUE]
DefaultEnv == [stdout |-> "utf-8", errors |-> "strict"]

ForcedHero(hp, atk, def, crit, hardcore_mode) ==
    [ name |-> << 65, 114, 105, 97 >>, hero_class |-> "Warrior", level |-> 1,
      hardcore_mode |-> hardcore_mode,
      max_hp |-> hp, current_hp |-> hp,
      attack |-> atk, defense |-> def, critical_chance |-> crit ]

ForcedEnemy(hp, atk, def, hardcore_mode) ==
    [ level |-> 1, hardcore_mode |-> hardcore_mode,
      max_hp |-> hp, current_hp |-> hp, attack |-> atk, defense |-> def ]

\* BattleSimulator.__init__ (lines 130-135)
SimulatorInit ==
    /\ turn_count = 0
    /\ turnLog = << >>
    /\ victory = FALSE
    /\ heroAttacks = 0
    /\ enemyAttacks = 0
    /\ call = NoCall
    /\ draw = NoDraw

InitBattle ==
    /\ pc = "battle_start"
    /\ args = NoArgs
    /\ env = DefaultEnv
    /\ \E hc \in BOOLEAN :
         /\ \E hp \in ForcedHeroHps, atk \in ForcedHeroAttacks,
               def \in ForcedDefenses :
              /\ ForcedPair(hp, def)
              /\ hero = ForcedHero(hp, atk, def, ForcedCrit, hc)
         /\ \E hp \in ForcedEnemyHps, atk \in ForcedEnemyAttacks,
               def \in ForcedDefenses :
              /\ ForcedPair(hp, def)
              /\ enemy = ForcedEnemy(hp, atk, def, hc)
    /\ SimulatorInit
    /\ exc = "none"
    /\ exit_code = -1
    /\ files = {}

NextBattle ==
    \/ BattleStart
    \/ LoopTest
    \/ HeroTurn
    \/ CheckEnemy
    \/ EnemyTurn
    \/ CheckHero
    \/ AfterLoop

SpecBattle == InitBattle /\ [][NextBattle]_vars

\* the loop is sequential code: every step that can run does run
FairBattle == SpecBattle /\ WF_vars(NextBattle)

----------------------------------------------------------------------------
(* Command line driver: argparse, validate_arguments, main *)

\* text is a sequence of code points
Surrogates == 55296..57343          \* U+D800..U+DFFF
EscapedBytes == 56448..56575        \* U+DC80..U+DCFF, bytes kept by surrogateescape
Castle == 127984                    \* U+1F3F0, the emoji of the banner (line 614)

PlainName == << 65, 114, 105, 97 >>
SurrogateName == << 65, 56575 >>    \* argv byte 0xFF decoded by surrogateescape

\* str.encode(codec, errors) succeeds
CanEncode(codec, errors, text) ==
    \A i \in 1..Len(text) :
        \/ /\ codec = "utf-8"
           /\ text[i] \notin Surrogates
        \/ /\ codec = "ascii"
           /\ text[i] < 128
        \/ /\ errors = "surrogateescape"
           /\ text[i] \in EscapedBytes

\* a date string is the sequence of the numbers between its "-" separators
IsLeap(y) == (y % 4 = 0 /\ y % 100 # 0) \/ y % 400 = 0

DaysInMonth(y, m) ==
    IF m = 2 THEN (IF IsLeap(y) THEN 29 ELSE 28)
    ELSE IF m \in {4, 6, 9, 11} THEN 30 ELSE 31

\* datetime.strptime(battle_date, '%Y-%m-%d') does not raise
StrptimeOk(date) ==
    /\ Len(date) = 3
    /\ date[1] \in 1..9999
    /\ date[2] \in 1..12
    /\ date[3] \in 1..DaysInMonth(date[1], date[2])

\* validation that leaves the date to later code
validate_arguments_no_date(a) ==
    IF a.level < MinLevel \/ a.level > MaxLevel THEN "ValueError"
    ELSE IF a.hero_class \notin VALID_CLASSES THEN "ValueError"
    ELSE "none"

\* validate_arguments: the exception it raises, "none" if it returns
validate_arguments(a) ==
    IF a.level < MinLevel \/ a.level > MaxLevel THEN "ValueError"
    ELSE IF a.hero_class \notin VALID_CLASSES THEN "ValueError"
    ELSE IF ~StrptimeOk(a.battle_date) THEN "ValueError"
    ELSE "none"

\* UnicodeEncodeError is a subclass of ValueError; OSError, KeyError are not
IsValueError(e) == e \in {"ValueError", "UnicodeEncodeError"}

\* the clauses of main's try statement (lines 645-650)
HandlerExitCode(e) == IF IsValueError(e) THEN 2 ELSE 3

battleVars == << turn_count, turnLog, victory, heroAttacks, enemyAttacks, call,
                draw >>

\* line 608: argparse rejects a class outside choices and exits with 2
ParseArgs ==
    /\ pc = "parse_args"
    /\ IF args.hero_class \in VALID_CLASSES
       THEN /\ pc' = "validate"
            /\ UNCHANGED exit_code
       ELSE /\ pc' = "exited"
            /\ exit_code' = 2
    /\ UNCHANGED << args, env, hero, enemy, exc, files >>
    /\ UNCHANGED battleVars

\* line 611
Validate ==
    /\ pc = "validate"
    /\ exc' = validate_arguments(args)
    /\ pc' = IF validate_arguments(args) = "none" THEN "banner" ELSE "raised"
    /\ UNCHANGED << args, env, hero, enemy, exit_code, files >>
    /\ UNCHANGED battleVars

\* lines 613-622: print() of the banner and of the player name to stdout
PrintBanner ==
    /\ pc = "banner"
    /\ IF CanEncode(env.stdout, env.errors, << Castle >> \o args.player_name)
       THEN /\ pc' = "construct_hero"
            /\ UNCHANGED exc
       ELSE /\ pc' = "raised"
            /\ exc' = "UnicodeEncodeError"
    /\ UNCHANGED << args, env, hero, enemy, exit_code, files >>
    /\ UNCHANGED battleVars

\* line 624, Hero.__init__ (lines 20-30): a class missing from the tables
\* raises KeyError in _calculate_max_hp; the level is not looked at
ConstructHero ==
    /\ pc = "construct_hero"
    /\ IF args.hero_class \in DOMAIN base_hp
       THEN /\ hero' = HeroInit(args.player_name, args.hero_class,
                                args.level, args.hardcore_mode)
            /\ pc' = "construct_enemy"
            /\ UNCHANGED exc
       ELSE /\ pc' = "raised"
            /\ exc' = "KeyError"
            /\ UNCHANGED hero
    /\ UNCHANGED << args, env, enemy, exit_code, files >>
    /\ UNCHANGED battleVars

\* line 625, Enemy.__init__ (lines 92-102)
ConstructEnemy ==
    /\ pc = "construct_enemy"
    /\ \E offset \in OffsetLo..OffsetHi :
         enemy' = EnemyInit(args.level, args.hardcore_mode, offset)
    /\ pc' = "new_simulator"
    /\ UNCHANGED << args, env, hero, exc, exit_code, files >>
    /\ UNCHANGED battleVars

\* line 627, BattleSimulator.__init__ (lines 130-135)
NewSimulator ==
    /\ pc = "new_simulator"
    /\ turn_count' = 0
    /\ turnLog' = << >>
    /\ pc' = "battle_start"
    /\ UNCHANGED << args, env, hero, enemy, victory, exc, exit_code, files,
                    heroAttacks, enemyAttacks, call, draw >>

\* line 634, save_text_log: open() for writing creates the file; the write
\* encodes the log, which holds the hero's name, as strict UTF-8
SaveTextLog ==
    /\ pc = "returned"
    /\ \E open_ok \in BOOLEAN :
         IF ~open_ok
         THEN /\ pc' = "raised"
              /\ exc' = "OSError"
              /\ UNCHANGED files
         ELSE /\ files' = files \cup {"game_log.txt"}
              /\ IF CanEncode("utf-8", "strict", hero.name)
                 THEN /\ pc' = "html_report"
                      /\ UNCHANGED exc
                 ELSE /\ pc' = "raised"
                      /\ exc' = "UnicodeEncodeError"
    /\ UNCHANGED << args, env, hero, enemy, exit_code >>
    /\ UNCHANGED battleVars

\* lines 635-637, generate_html_report
GenerateHtmlReport ==
    /\ pc = "html_report"
    /\ \E open_ok \in BOOLEAN :
         IF ~open_ok
         THEN /\ pc' = "raised"
              /\ exc' = "OSError"
              /\ UNCHANGED files
         ELSE /\ files' = files \cup {"battle_report.html"}
              /\ pc' = "sys_exit"
              /\ UNCHANGED exc
    /\ UNCHANGED << args, env, hero, enemy, exit_code >>
    /\ UNCHANGED battleVars

\* line 643
SysExit ==
    /\ pc = "sys_exit"
    /\ exit_code' = IF victory THEN 0 ELSE 1
    /\ pc' = "exited"
    /\ UNCHANGED << args, env, hero, enemy, exc, files >>
    /\ UNCHANGED battleVars

\* lines 645-650
ExceptHandler ==
    /\ pc = "raised"
    /\ exit_code' = HandlerExitCode(exc)
    /\ pc' = "exited"
    /\ UNCHANGED << args, env, hero, enemy, exc, files >>
    /\ UNCHANGED battleVars

----------------------------------------------------------------------------
(* Runs of main *)

MainClasses == {"Mage", "Bard"}
MainLevels == {MinLevel - 1, MinLevel, MaxLevel + 1}
MainHardcore == {FALSE}
MainDates == { << 2024, 2, 29 >>, << 2023, 2, 29 >>, << 2024, 13, 1 >>, << 2024, 1 >> }

\* the player name given on the command line and the codec of stdout
MainRuns == { [name |-> PlainName, stdout |-> "utf-8", errors |-> "strict"],
              [name |-> PlainName, stdout |-> "ascii", errors |-> "strict"],
              [name |-> SurrogateName, stdout |-> "utf-8", errors |-> "strict"],
              [name |-> SurrogateName, stdout |-> "utf-8",
               errors |-> "surrogateescape"] }

InitMain ==
    /\ pc = "parse_args"
    /\ \E r \in MainRuns, c \in MainClasses, l \in MainLevels,
          h \in MainHardcore, d \in MainDates :
         /\ args = [player_name |-> r.name, hero_class |-> c, level |-> l,
                    hardcore_mode |-> h, battle_date |-> d]
         /\ env = [stdout |-> r.stdout, errors |-> r.errors]
    /\ hero = NoObject
    /\ enemy = NoObject
    /\ SimulatorInit
    /\ exc = "none"
    /\ exit_code = -1
    /\ files = {}

NextMain ==
    \/ ParseArgs
    \/ Validate
    \/ PrintBanner
    \/ ConstructHero
    \/ ConstructEnemy
    \/ NewSimulator
    \/ NextBattle
    \/ SaveTextLog
    \/ GenerateHtmlReport
    \/ SysExit
    \/ ExceptHandler

SpecMain == InitMain /\ [][NextMain]_vars

----------------------------------------------------------------------------
(* Direct construction of the combatants, for every class and level *)

StatClasses == VALID_CLASSES \cup {"Bard"}
StatLevels == (MinLevel - 1)..(MaxLevel + 1)

InitStats ==
    /\ pc = "construct_hero"
    /\ \E c \in StatClasses, l \in StatLevels, h \in BOOLEAN :
         args = [player_name |-> PlainName, hero_class |-> c, level |-> l,
                 hardcore_mode |-> h, battle_date |-> << 2024, 2, 29 >>]
    /\ env = [stdout |-> "utf-8", errors |-> "strict"]
    /\ hero = NoObject
    /\ enemy = NoObject
    /\ SimulatorInit
    /\ exc = "none"
    /\ exit_code = -1
    /\ files = {}

NextStats ==
    \/ ConstructHero
    \/ ConstructEnemy

SpecStats == InitStats /\ [][NextStats]_vars

----------------------------------------------------------------------------
(* Direct calls of take_damage on combatants with any defense value *)

DefBound == 5
RawBound == 6
MaxCalls == 3

DirectDefenses == (0 - DefBound)..DefBound
DirectDamages == (0 - RawBound)..RawBound

\* hero.take_damage(damage), lines 78-82
CallHeroTakeDamage ==
    /\ pc = "direct"
    /\ call.n < MaxCalls
    /\ \E damage \in DirectDamages :
         /\ hero' = hero_take_damage(hero, damage)
         /\ call' = [n |-> call.n + 1, target |-> "hero", damage |-> damage,
                     returned |-> hero_actual_damage(hero, damage)]
    /\ UNCHANGED << pc, args, env, enemy, turn_count, turnLog, victory, exc,
                    exit_code, files, heroAttacks, enemyAttacks, draw >>

\* enemy.take_damage(damage), lines 116-120
CallEnemyTakeDamage ==
    /\ pc = "direct"
    /\ call.n < MaxCalls
    /\ \E damage \in DirectDamages :
         /\ enemy' = enemy_take_damage(enemy, damage)
         /\ call' = [n |-> call.n + 1, target |-> "enemy", damage |-> damage,
                     returned |-> enemy_actual_damage(enemy, damage)]
    /\ UNCHANGED << pc, args, env, hero, turn_count, turnLog, victory, exc,
                    exit_code, files, heroAttacks, enemyAttacks, draw >>

InitDamage ==
    /\ pc = "direct"
    /\ args = NoArgs
    /\ env = DefaultEnv
    /\ \E def \in DirectDefenses :
         /\ hero = ForcedHero(MaxTurns, ForcedAttack, def, ForcedCrit, FALSE)
         /\ enemy = ForcedEnemy(MaxTurns, ForcedAttack, def, FALSE)
    /\ SimulatorInit
    /\ exc = "none"
    /\ exit_code = -1
    /\ files = {}

NextDamage ==
    \/ CallHeroTakeDamage
    \/ CallEnemyTakeDamage

SpecDamage == InitDamage /\ [][NextDamage]_vars

----------------------------------------------------------------------------
(* A battle session on the combatants main constructs (lines 624-628) for  *)
(* a valid class, level and mode; offset is the draw of line 94.           *)

GeneratedInit(hero_class, level, hardcore_mode, offset) ==
    /\ pc = "battle_start"
    /\ args = [player_name |-> PlainName, hero_class |-> hero_class,
               level |-> level, hardcore_mode |-> hardcore_mode,
               battle_date |-> << 2024, 2, 29 >>]
    /\ env = DefaultEnv
    /\ hero = HeroInit(PlainName, hero_class, level, hardcore_mode)
    /\ enemy = EnemyInit(level, hardcore_mode, offset)
    /\ SimulatorInit
    /\ exc = "none"
    /\ exit_code = -1
    /\ files = {}

\* a first-level Mage against the enemies of the two lowest levels, -1 and 0
InitDuel ==
    \E hc \in BOOLEAN, offset \in {OffsetLo, OffsetLo + 1} :
        GeneratedInit("Mage", MinLevel, hc, offset)

SpecDuel == InitDuel /\ [][NextBattle]_vars

\* the hero that hits weakest for its level against the toughest enemy it
\* can meet: a first-level Warrior in hardcore mode, enemy three levels up
InitSiege == GeneratedInit("Warrior", MinLevel, TRUE, OffsetHi)

SpecSiege == InitSiege /\ [][NextBattle]_vars

----------------------------------------------------------------------------
(* Properties of the battle loop *)

EnemyNarration == {"enemy_attack", "enemy_miss"}

IndexOfKind(log, kind) == CHOOSE i \in 1..Len(log) : log[i].kind = kind

\* C1: simulate_battle returns true exactly when the battle stops with the
\* enemy's currentHealth <= 0, on whichever turn 1..maxTurns the killing hit
\* lands, and false when it stops by the hero's death or by the turn ceiling.
C1_TrueIffEnemyDead ==
    pc = "returned" => (victory <=> enemy.current_hp <= 0)

\* C2: simulate_battle terminates, and turn_count never exceeds max_turns:
\* at most 50 hero attacks and at most 50 enemy attacks are performed.
C2_TerminatesWithinMaxTurns ==
    /\ <>(pc = "returned")
    /\ [](/\ turn_count <= MaxTurns
          /\ heroAttacks <= MaxTurns
          /\ enemyAttacks <= MaxTurns)

C2_Witness ==
    /\ pc = "returned"
    /\ turn_count = MaxTurns
    /\ heroAttacks = MaxTurns
    /\ enemyAttacks = MaxTurns

\* C3: in every turn the hero's attack is resolved and narrated before any
\* enemy action of that turn; once the hero's hit has left the enemy's
\* currentHealth <= 0, no enemy attack is performed or narrated in that turn
\* and the hero's currentHealth stays what it was.
C3_HeroFirstNoRetaliation ==
    [][ /\ pc = "hero_turn" =>
            /\ hero' = hero
            /\ enemyAttacks' = enemyAttacks
            /\ HasKind(turnLog', "hero_attack")
            /\ \A i \in 1..Len(turnLog') : turnLog'[i].kind \notin EnemyNarration
        /\ pc = "enemy_turn" =>
            /\ HasKind(turnLog, "hero_attack")
            /\ \A i \in 1..Len(turnLog') :
                 turnLog'[i].kind \in EnemyNarration
                    => IndexOfKind(turnLog', "hero_attack") < i
        /\ enemy'.current_hp <= 0 =>
            /\ hero' = hero
            /\ enemyAttacks' = enemyAttacks
            /\ \A i \in 1..Len(turnLog') : turnLog'[i].kind \notin EnemyNarration
      ]_vars

C3_Witness ==
    /\ pc = "returned"
    /\ enemy.current_hp <= 0
    /\ turn_count > 1
    /\ hero.current_hp < hero.max_hp
    /\ enemyAttacks = turn_count - 1
    /\ HasKind(turnLog, "enemy_defeated")

\* C4: the timeout narration is appended only when the turn counter reached
\* the ceiling with both combatants alive, so no finished battle's log holds
\* both a "has been defeated" narration and the timeout narration.
C4_TimeoutDisjoint ==
    HasKind(turnLog, "timeout") =>
        /\ is_alive(hero)
        /\ is_alive(enemy)
        /\ ~HasKind(turnLog, "enemy_defeated")
        /\ ~HasKind(turnLog, "hero_defeated")

\* C6: for both combatants currentHealth <= maxHealth in every state and
\* currentHealth never increases from one state to the next; the internal
\* value may become negative, but every narrated health value is
\* max(0, currentHealth) and so never negative.
C6_HealthNeverIncreases ==
    [][ /\ hero.current_hp <= hero.max_hp
        /\ enemy.current_hp <= enemy.max_hp
        /\ hero'.current_hp <= hero.current_hp
        /\ enemy'.current_hp <= enemy.current_hp
        /\ hero'.current_hp <= hero'.max_hp
        /\ enemy'.current_hp <= enemy'.max_hp
        /\ \A i \in 1..Len(turnLog') :
             /\ turnLog'[i].kind = "enemy_hp" =>
                  /\ turnLog'[i].val >= 0
                  /\ turnLog'[i].val =
                       (IF enemy'.current_hp > 0 THEN enemy'.current_hp ELSE 0)
             /\ turnLog'[i].kind = "hero_hp" =>
                  /\ turnLog'[i].val >= 0
                  /\ turnLog'[i].val =
                       (IF hero'.current_hp > 0 THEN hero'.current_hp ELSE 0)
      ]_vars

C6_Witness ==
    /\ enemy.current_hp < 0
    /\ hero.current_hp < hero.max_hp
    /\ HasKind(turnLog, "enemy_hp")
    /\ turnLog[IndexOfKind(turnLog, "enemy_hp")].val = 0

----------------------------------------------------------------------------
(* Properties of take_damage *)

\* q is the floor of d / 2
IsHalfFloor(q, d) == 2 * q <= d /\ d <= 2 * q + 1

HalfRange == (0 - DefBound - 1)..(DefBound + 1)

\* C7: for every raw damage and every defense value, odd and negative ones
\* included, take_damage of Hero and of Enemy lowers the defender's
\* currentHealth by exactly max(rawDamage - floor(defense/2), 1) and returns
\* that amount, which is at least 1.
C7_TakeDamageExact ==
    [][ call'.n # call.n =>
          LET defender == IF call'.target = "hero" THEN hero ELSE enemy
              after == IF call'.target = "hero" THEN hero' ELSE enemy'
          IN  /\ \E q \in HalfRange :
                   /\ IsHalfFloor(q, defender.defense)
                   /\ call'.returned =
                        (IF call'.damage - q >= 1 THEN call'.damage - q ELSE 1)
              /\ defender.current_hp - after.current_hp = call'.returned
              /\ call'.returned >= 1
              /\ after = [defender EXCEPT !.current_hp = after.current_hp]
      ]_vars

C7_Witness ==
    /\ call.target = "hero"
    /\ hero.defense = -3
    /\ call.damage = 0
    /\ call.returned = 2
    /\ call.n = 1
    /\ hero.current_hp = hero.max_hp - 2

----------------------------------------------------------------------------
(* Properties of the stat derivation *)

HeroBuilt == pc \in {"construct_enemy", "new_simulator"}

ValidInputs ==
    /\ args.hero_class \in VALID_CLASSES
    /\ args.level \in MinLevel..MaxLevel

\* C8: for each class and levels L, L+1 in 1..100, maxHealth, attack and
\* defense at L+1 are strictly greater than at L, criticalChance at L+1 is
\* >= that at L, and criticalChance is <= 0.75 (750 thousandths) at every
\* level.
C8_StatsGrowWithLevel ==
    (HeroBuilt /\ ValidInputs) =>
        /\ hero.critical_chance <= 750
        /\ args.level < MaxLevel =>
             LET up == HeroInit(args.player_name, args.hero_class,
                                args.level + 1, args.hardcore_mode)
             IN  /\ up.max_hp > hero.max_hp
                 /\ up.attack > hero.attack
                 /\ up.defense > hero.defense
                 /\ up.critical_chance >= hero.critical_chance
                 /\ up.critical_chance <= 750

C8_Witness ==
    /\ HeroBuilt
    /\ args.hero_class = "Rogue"
    /\ args.level = MaxLevel - 1
    /\ hero.critical_chance = 548
    /\ hero.defense = 114

\* the table of the specification
TableHP(c) == CASE c = "Warrior" -> 150 [] c = "Mage" -> 100 [] c = "Rogue" -> 120
TableAttack(c) == CASE c = "Warrior" -> 25 [] c = "Mage" -> 35 [] c = "Rogue" -> 30
TableDefense(c) == CASE c = "Warrior" -> 20 [] c = "Mage" -> 10 [] c = "Rogue" -> 15

\* C9: for every class and level in 1..100, construction yields
\* maxHealth = baseHP + 10*level, attack = baseAttack + 2*level,
\* defense = baseDefense + level with the table values, and currentHealth
\* starts equal to maxHealth; Warrior at level 1 has 160, 27, 21.
C9_HeroStatsFromTable ==
    (HeroBuilt /\ ValidInputs) =>
        /\ hero.max_hp = TableHP(args.hero_class) + 10 * args.level
        /\ hero.attack = TableAttack(args.hero_class) + 2 * args.level
        /\ hero.defense = TableDefense(args.hero_class) + args.level
        /\ hero.current_hp = hero.max_hp
        /\ (args.hero_class = "Warrior" /\ args.level = 1) =>
             (hero.max_hp = 160 /\ hero.attack = 27 /\ hero.defense = 21)

C9_Witness ==
    /\ HeroBuilt
    /\ args.hero_class = "Warrior"
    /\ args.level = 1
    /\ hero.max_hp = 160
    /\ hero.current_hp = 160
    /\ hero.attack = 27
    /\ hero.defense = 21

\* C10: the hardcore flag has no effect on any hero attribute and none on
\* the enemy's defense: against the run that differs only in the flag and
\* draws the same level offset, the hero's attributes are equal, the enemy's
\* defense is equal (10 + level), and the hardcore enemy's maxHealth and
\* attack are floor(1.5 x) of the non-hardcore 100 + 12*level and
\* 20 + 2*level.
C10_HardcoreOnlyScalesEnemy ==
    pc = "new_simulator" =>
        LET twinHero == HeroInit(args.player_name, args.hero_class,
                                 args.level, ~args.hardcore_mode)
            twin == EnemyInit(args.level, ~args.hardcore_mode,
                              enemy.level - args.level)
            hard == IF args.hardcore_mode THEN enemy ELSE twin
            soft == IF args.hardcore_mode THEN twin ELSE enemy
        IN  /\ twinHero.max_hp = hero.max_hp
            /\ twinHero.current_hp = hero.current_hp
            /\ twinHero.attack = hero.attack
            /\ twinHero.defense = hero.defense
            /\ twinHero.critical_chance = hero.critical_chance
            /\ twin.level = enemy.level
            /\ twin.defense = enemy.defense
            /\ enemy.defense = 10 + enemy.level
            /\ soft.max_hp = 100 + 12 * enemy.level
            /\ soft.attack = 20 + 2 * enemy.level
            /\ hard.max_hp = (3 * soft.max_hp) \div 2
            /\ hard.attack = (3 * soft.attack) \div 2

C10_Witness ==
    /\ pc = "new_simulator"
    /\ args.hardcore_mode
    /\ args.hero_class = "Mage"
    /\ args.level = 50
    /\ enemy.level = 50
    /\ enemy.max_hp = 1050
    /\ enemy.attack = 180
    /\ enemy.defense = 60
    /\ hero.max_hp = 600

----------------------------------------------------------------------------
(* Properties of main *)

ValidationRejected ==
    \/ args.hero_class \notin VALID_CLASSES
    \/ validate_arguments(args) # "none"

ReportsWritten == files = {"game_log.txt", "battle_report.html"}

\* C5: the exit code is 0 if and only if simulate_battle returned true, 1 if
\* it returned false and the reports were written, 2 if input validation
\* rejected the arguments, and 3 for any other failure.
C5_ExitCodes ==
    pc = "exited" =>
        /\ exit_code \in {0, 1, 2, 3}
        /\ ValidationRejected => exit_code = 2
        /\ (~ValidationRejected /\ exc # "none") => exit_code = 3
        /\ (~ValidationRejected /\ exc = "none") =>
             /\ ReportsWritten
             /\ exit_code = (IF victory THEN 0 ELSE 1)

\* C11: exit code 2 occurs only when validation rejected the arguments; a
\* failure raised after validation succeeded (at the banner, in combat, or
\* while the log file or the report is written) ends with exit code 3 and
\* never 2, whatever its error type.
C11_Exit2OnlyOnValidation ==
    pc = "exited" =>
        /\ exit_code = 2 => ValidationRejected
        /\ (~ValidationRejected /\ exc # "none") => exit_code = 3

\* C12: Hero(...) called with a class outside the enumerated set or a level
\* outside 1..100 fails, and no Hero object with such inputs is produced:
\* once the constructor has run, a Hero exists exactly when the inputs were
\* valid.
C12_HeroRejectsInvalidInputs ==
    pc # "construct_hero" => (HeroBuilt <=> ValidInputs)

\* the health value narrated by the "Hero HP" entry of the current turn
NarratedHeroHp(log) == log[IndexOfKind(log, "hero_hp")].val

\* C13: when the enemy's attack is a miss, mitigation and damage application
\* are skipped: the hero object after the enemy's turn equals the one before
\* it (current_hp is not lowered, not even by the minimum of 1), the turn's
\* narration has the miss entry and no hit entry, and the narrated hero
\* health is the unchanged one.
C13_MissSkipsDamage ==
    [][(pc = "enemy_turn" /\ draw'.miss) =>
         /\ hero' = hero
         /\ HasKind(turnLog', "enemy_miss")
         /\ ~HasKind(turnLog', "enemy_attack")
         /\ NarratedHeroHp(turnLog') = shown_hp(hero)]_vars

\* a miss against a hero on whom every hit would land for the minimum of 1
C13_Witness ==
    /\ pc = "check_hero"
    /\ draw.miss
    /\ hero.defense = ForcedDefense
    /\ enemy.attack > 0
    /\ hero.current_hp = hero.max_hp
    /\ HasKind(turnLog, "enemy_miss")

\* every field of combatant c1 but current_hp is as in c0
SameButHealth(c0, c1) == c1 = [c0 EXCEPT !.current_hp = c1.current_hp]

\* C14: resolving one attack changes only the defender's current_hp: the
\* attacker's current_hp and the max_hp, attack, defense, critical_chance and
\* level of both combatants are after every attack what they were before it,
\* and no other step of the session touches either combatant, so they are at
\* the end of the session what they were at construction.
C14_AttackChangesOnlyDefenderHealth ==
    [][/\ pc = "hero_turn" => (hero' = hero /\ SameButHealth(enemy, enemy'))
       /\ pc = "enemy_turn" => (enemy' = enemy /\ SameButHealth(hero, hero'))
       /\ pc \notin {"hero_turn", "enemy_turn"} =>
            (hero' = hero /\ enemy' = enemy)]_vars

\* a finished session in which both combatants were hit
C14_Witness ==
    /\ pc = "returned"
    /\ hero.current_hp < hero.max_hp
    /\ enemy.current_hp < enemy.max_hp
    /\ enemyAttacks > 1

\* the session has left the loop
BattleOver == pc \in {"after_loop", "returned"}

\* the enemy attacks a finished session must have seen
ExpectedEnemyAttacks ==
    IF ~is_alive(enemy) THEN turn_count - 1 ELSE turn_count

\* C15 as stated: in every reachable state the number of hero attacks
\* performed equals turn_count, and once the battle is over the number of
\* enemy attacks (hits plus misses) is turn_count - 1 if the hero killed the
\* enemy and turn_count otherwise.
C15_AttackCountsMatchTurns ==
    /\ heroAttacks = turn_count
    /\ BattleOver => enemyAttacks = ExpectedEnemyAttacks

\* C15 amended: turn_count starts at 0 and only the loop head changes it, by
\* exactly 1; the number of hero attacks equals turn_count in every state
\* except between the increment of line 160 and the attack of line 162 of
\* the same turn, where it is turn_count - 1; the terminal counts are as
\* stated.
C15_CountsOutsideTurnHead ==
    /\ [](/\ pc = "battle_start" => turn_count = 0
          /\ pc # "hero_turn" => heroAttacks = turn_count
          /\ pc = "hero_turn" => heroAttacks = turn_count - 1
          /\ BattleOver => enemyAttacks = ExpectedEnemyAttacks)
    /\ [][IF pc = "loop" /\ pc' = "hero_turn"
          THEN turn_count' = turn_count + 1
          ELSE turn_count' = turn_count]_vars

\* a battle of several turns ended by the hero's killing hit
C15_Witness ==
    /\ pc = "returned"
    /\ ~is_alive(enemy)
    /\ turn_count > 2
    /\ heroAttacks = turn_count
    /\ enemyAttacks = turn_count - 1

\* the command line has a level outside 1..100, a class outside the set, or
\* a battle date that is not a calendar date written YYYY-MM-DD
BadArguments ==
    \/ args.level \notin MinLevel..MaxLevel
    \/ args.hero_class \notin VALID_CLASSES
    \/ ~StrptimeOk(args.battle_date)

ClaimedLoss(m, atk, r, def) ==
    LET mitigated == m * (atk + r) - FloorDiv(def, 2)
    IN  IF mitigated > 1 THEN mitigated ELSE 1

CritFactor(crit) == IF crit THEN 2 ELSE 1

EveryHitTakesAFifteenth ==
    \A c \in VALID_CLASSES, l \in MinLevel..MaxLevel, hc \in BOOLEAN,
       offset \in OffsetLo..OffsetHi, u \in UnitDraws, r \in HeroRolls :
        LET h == HeroInit(PlainName, c, l, hc)
            e == EnemyInit(l, hc, offset)
        IN  15 * enemy_actual_damage(e, attack_enemy(h, u, r)) >= e.max_hp

\* C18: for every hero built from valid inputs and the enemy generated for
\* it, the battle is over by a combatant's death within 15 turns: turn_count
\* never exceeds 15, so it never reaches the ceiling, the timeout is never
\* taken and a finished session has a dead combatant.  The session run is the
\* one that lasts longest; the inequality that bounds the number of hero
\* attacks an enemy survives is evaluated for all valid inputs when the
\* session starts.
C18_EndsWithinFifteenTurns ==
    /\ turn_count <= 15
    /\ turn_count < MaxTurns
    /\ ~HasKind(turnLog, "timeout")
    /\ BattleOver => (~is_alive(hero) \/ ~is_alive(enemy))
    /\ pc = "battle_start" => EveryHitTakesAFifteenth

\* a battle that needed all fifteen turns
C18_Witness ==
    /\ pc = "returned"
    /\ turn_count = 15
    /\ ~is_alive(enemy)
    /\ victory

\* C19: the enemy's level lies in heroLevel - 2 .. heroLevel + 3, so it is
\* below 1 only for hero levels 1 and 2 (down to -1); yet for every hero
\* level in 1..100 and either mode the enemy's max_hp, attack and defense are
\* strictly positive and the enemy starts alive, at full health.
C19_EnemyAttributesPositive ==
    (pc = "new_simulator" /\ ValidInputs) =>
        /\ enemy.level \in (args.level + OffsetLo)..(args.level + OffsetHi)
        /\ enemy.level >= -1
        /\ enemy.level < MinLevel => args.level <= 2
        /\ enemy.max_hp > 0
        /\ enemy.attack > 0
        /\ enemy.defense > 0
        /\ enemy.current_hp = enemy.max_hp
        /\ is_alive(enemy)

\* the lowest enemy there is: level -1, generated for a first-level hero
C19_Witness ==
    /\ pc = "new_simulator"
    /\ args.level = MinLevel
    /\ args.hero_class \in VALID_CLASSES
    /\ args.hardcore_mode
    /\ enemy.level = -1
    /\ enemy.defense = 9

\* no enemy generated for a valid hero level returns 0 from an attack whose
\* miss draw failed
GeneratedEnemyNeverReturnsZero ==
    \A l \in MinLevel..MaxLevel, hc \in BOOLEAN, offset \in OffsetLo..OffsetHi,
       u \in UnitDraws, r \in EnemyRolls :
        u >= MissChanceMilli => attack_hero(EnemyInit(l, hc, offset), u, r) # 0

\* C20: the loop takes a returned damage of 0 for a miss, and no enemy
\* generated from a valid hero level returns 0 on a non-miss; hence in every
\* enemy turn a miss is narrated exactly when the miss draw succeeded, the
\* hero is left unchanged exactly when the miss draw succeeded, and a
\* non-miss attack is narrated as a hit and lowers the hero's current_hp by
\* at least 1.
C20_MissIffMissDraw ==
    /\ [](pc = "battle_start" => GeneratedEnemyNeverReturnsZero)
    /\ [][pc = "enemy_turn" =>
            /\ draw'.miss <=> HasKind(turnLog', "enemy_miss")
            /\ draw'.miss <=> ~HasKind(turnLog', "enemy_attack")
            /\ draw'.miss <=> hero' = hero
            /\ ~draw'.miss => hero'.current_hp <= hero.current_hp - 1]_vars

\* a landed hit of the weakest enemy there is (level -1)
C20_Witness ==
    /\ pc = "check_hero"
    /\ ~draw.miss
    /\ enemy.level = -1
    /\ HasKind(turnLog, "enemy_attack")
    /\ hero.current_hp < hero.max_hp
    /\ enemyAttacks = 1

====
